---- MODULE Spec2Model ----
(***************************************************************************)
(* Model of hifiberrydsp/hardware/sigmatcp.py: the SigmaTCP server         *)
(* (SigmaTCPHandler running in one thread per connection under             *)
(* ThreadingMixIn), its bus transport (spi_read, write_data), the device   *)
(* control sequences (program_checksum, write_eeprom_file) and the framing *)
(* loop of SigmaTCPHandler.handle.                                         *)
(*                                                                         *)
(* Three next-state relations share the variables:                         *)
(*   SpecTransport  one caller of write_data / spi_read, one bus transfer  *)
(*                  per step, addresses and lengths from bounded sets;     *)
(*   SpecBus        two handler threads on the one class-level SPI handle, *)
(*                  interleaved between bus transfers;                     *)
(*   SpecHandler    one connection's handle() loop over a byte stream      *)
(*                  that TCP delivers in arbitrary pieces.                 *)
(***************************************************************************)
EXTENDS Integers, Sequences, FiniteSets, TLC

VARIABLES
    st,         \* st[c]: "idle" | "busy" | "done" | "failed", thread c's call
    op,         \* op[c]: the call thread c runs: [name, addr, len]
    todo,       \* todo[c]: the bus transfers (and sleeps) the call still issues
    log,        \* every bus transfer made on SigmaTCPHandler.spi, in order
    core,       \* the DSP core: "running" | "halted"
    frames,     \* the frames the client sends on the connection, in order
    inflight,   \* bytes sent by the client and not yet received
    peer,       \* "open" | "closed" | "reset"
    data,       \* handle(): local data (None or bytes)
    read_more,  \* handle(): local read_more
    result,     \* handle(): local result (unbound, None or a response)
    finished,   \* handle(): local finished
    crash,      \* the exception that left handle(), "none" while it runs
    sent,       \* what request.send() was given, in order
    processed,  \* the frames that reached an opcode branch and ran it
    spin,       \* parity of the loop iterations whose recv returned no byte
    naps,       \* every time.sleep a thread has completed, in order
    sock,       \* the client's self.socket: "none" (None) | "open"
    autoconnect,\* the client's self.autoconnect
    call,       \* the client's last operation and how it ended
    rcvd,       \* response bytes of the connection the client has received
    cevents     \* what the client did on its socket, in order

busVars == <<st, op, todo, log, core>>
connVars == <<frames, inflight, peer, data, read_more, result, finished,
              crash, sent, processed, spin>>
cliVars == <<sock, autoconnect, call, rcvd, cevents>>
vars == <<st, op, todo, log, core, frames, inflight, peer, data, read_more,
          result, finished, crash, sent, processed, spin, naps, sock,
          autoconnect, call, rcvd, cevents>>

(***************************************************************************)
(* Program constants                                                       *)
(***************************************************************************)
COMMAND_READ == 10
COMMAND_READRESPONSE == 11
COMMAND_WRITE == 9
COMMAND_EEPROM_FILE == 240
COMMAND_CHECKSUM == 241
COMMAND_CHECKSUM_RESPONSE == 242
COMMAND_EEPROM_CONTENT == 243
HEADER_SIZE == 14
\* write_data: a request of fewer than SPI_LIMIT bytes goes out in one transfer
SPI_LIMIT == 4096
\* write_data: spi_request[:4003] and spi_request[4003:]
SPI_SPLIT == 4003
\* write_data: addr = addr + 1000
CELL_SKIP == 1000
\* program_checksum: block_size
BLOCK_SIZE == 2048
\* the 3-byte prefix of every request: control byte, a1, a0
PREFIX == 3
\* the hardware ceiling of one transfer, prefix included (specification 4.2)
CEILING == 4096
\* bytes per memory cell ("each memory cell is 4 bytes long")
CELL_BYTES == 4

(***************************************************************************)
(* Device profile (hifiberrydsp.hardware.adau145x, imported by the source) *)
(***************************************************************************)
HIBERNATE_REG == 62464
STARTCORE_REG == 62466
KILLCORE_REG == 62467
PROGRAM_ADDR == 49152
WORD_LENGTH == 4
\* dsp.reset_register() and the length of a control register in bytes
RESET_REG == 63632
REG_LEN == 2
\* dsp.DECIMAL_LEN
DECIMAL_LEN == 4
\* program_length in words; small, so that a scan is a few block reads
ProgramLength == 1024

(***************************************************************************)
(* Bounds                                                                  *)
(***************************************************************************)
\* payloads hold up to MaxBlocks full 4000-byte chunks plus a remainder
MaxBlocks == 2
\* a connection carries up to MaxFrames frames
MaxFrames == 2
\* the client makes up to MaxCalls calls (operations, connect, disconnect)
MaxCalls == 2

\* F applied to the value of e, with e evaluated once
Bind(e, F(_)) == CHOOSE r \in {F(v) : v \in {e}} : TRUE

Min(a, b) == IF a < b THEN a ELSE b
Max(a, b) == IF a > b THEN a ELSE b

\* a0 = addr & 0xff, a1 = (addr >> 8) & 0xff: the address as it goes on the wire
WireAddr(addr) == ((addr \div 256) % 256) * 256 + (addr % 256)

\* Python s[a:b] on a sequence (0-based, end exclusive, clipped to the sequence)
Slice(s, a, b) ==
    LET lo == Min(a, Len(s))
        hi == Min(b, Len(s))
    IN  IF hi <= lo THEN <<>> ELSE SubSeq(s, lo + 1, hi)

\* Python s[a:]
SliceFrom(s, a) == Slice(s, a, Len(s))

(***************************************************************************)
(* Bus transfers.  One entry of the log is one call of spi.xfer:           *)
(*   conn   the connection (thread) that made it                           *)
(*   call   the operation it belongs to                                    *)
(*   kind   "w" write request, "r" read request, "sleep" a time.sleep      *)
(*   addr   the address in the request's bytes 1 and 2                     *)
(*   off    index in the caller's payload of the first payload byte        *)
(*   n      the length of the request in bytes, prefix included            *)
(*   bytes  the payload itself where the model carries it (register and    *)
(*          frame writes); a long payload is carried as off and n only     *)
(***************************************************************************)
Xfer(kind, addr, off, n, bytes) ==
    [kind |-> kind, addr |-> WireAddr(addr), off |-> off, n |-> n, bytes |-> bytes]

\* a write_data that advances the address by the chunk's bytes, not its cells
next_chunk_addr_in_bytes(addr) == addr + (SPI_SPLIT - PREFIX)

\* write_data, line 505: skip forward 1000 cells
next_chunk_addr(addr) == addr + CELL_SKIP

\* write_data, lines 493-514: the loop over a request of len bytes (prefix
\* included) whose payload starts at payload index off
RECURSIVE write_loop(_, _, _, _)
write_loop(addr, off, len, bytes) ==
    IF len < SPI_LIMIT
    THEN <<Xfer("w", addr, off, len, bytes)>>
    ELSE LET short == Min(len, SPI_SPLIT)
             rest == Max(len - SPI_SPLIT, 0)
         IN  <<Xfer("w", addr, off, short, Slice(bytes, 0, SPI_SPLIT - PREFIX))>>
             \o write_loop(next_chunk_addr(addr), off + (SPI_SPLIT - PREFIX),
                           PREFIX + rest, SliceFrom(bytes, SPI_SPLIT - PREFIX))

\* write_data(addr, data): data has n bytes; the transfers it makes, in order
write_data(addr, n, bytes) ==
    LET len == PREFIX + n
    IN  IF len < SPI_LIMIT
        THEN <<Xfer("w", addr, 0, len, bytes)>>
        ELSE write_loop(addr, 0, len, bytes)

\* a spi_read that counts the prefix as part of the requested length
spi_read_without_prefix(addr, length) == <<Xfer("r", addr, 0, length, <<>>)>>

\* spi_read(addr, length): one transfer of 3 + length bytes
spi_read(addr, length) == <<Xfer("r", addr, 0, PREFIX + length, <<>>)>>

\* time.sleep of ms milliseconds: a suspension point, no bus transfer
Sleep(ms) == [kind |-> "sleep", addr |-> 0, off |-> 0, n |-> ms, bytes |-> <<>>]

\* a _kill_dsp that writes kill-core=1 before kill-core=0
_kill_dsp_reordered ==
    write_data(HIBERNATE_REG, 2, <<0, 1>>) \o <<Sleep(1)>>
    \o write_data(KILLCORE_REG, 2, <<0, 1>>) \o write_data(KILLCORE_REG, 2, <<0, 0>>)

\* _kill_dsp: hibernate=1, sleep(0.001), kill-core=0, kill-core=1
_kill_dsp ==
    write_data(HIBERNATE_REG, 2, <<0, 1>>) \o <<Sleep(1)>>
    \o write_data(KILLCORE_REG, 2, <<0, 0>>) \o write_data(KILLCORE_REG, 2, <<0, 1>>)

\* _start_dsp: start-core=0, start-core=1
_start_dsp ==
    write_data(STARTCORE_REG, 2, <<0, 0>>) \o write_data(STARTCORE_REG, 2, <<0, 1>>)

\* program_checksum, lines 534-540: the block reads of the scan
RECURSIVE checksum_reads(_, _)
checksum_reads(addr, datalen) ==
    IF datalen < ProgramLength * WORD_LENGTH
    THEN spi_read(addr, BLOCK_SIZE)
         \o checksum_reads(addr + (BLOCK_SIZE \div WORD_LENGTH), datalen + BLOCK_SIZE)
    ELSE <<>>

\* program_checksum: halt, scan, restart.  Nothing catches an exception of a
\* transfer, so a failed transfer abandons the rest of the sequence.
program_checksum == _kill_dsp \o checksum_reads(PROGRAM_ADDR, 0) \o _start_dsp

\* a write_eeprom_file that issues every write first and sleeps afterwards
RECURSIVE apply_actions_sleeping_last(_)
apply_actions_sleeping_last(actions) ==
    IF actions = <<>> THEN <<>>
    ELSE LET a == Head(actions)
         IN  (IF a.instr = "writeXbytes"
              THEN write_data(a.addr, Len(a.bytes), a.bytes) ELSE <<>>)
             \o apply_actions_sleeping_last(Tail(actions))
             \o (IF a.instr = "writeXbytes" /\ a.erase THEN <<Sleep(10000)>> ELSE <<>>)
             \o (IF a.instr = "delay" THEN <<Sleep(1000)>> ELSE <<>>)

\* write_eeprom_file, lines 455-473: the actions of the parsed image, in order.
\* An action is [instr, addr, erase, bytes]; erase is ("g_Erase" in paramname).
RECURSIVE apply_actions(_)
apply_actions(actions) ==
    IF actions = <<>> THEN <<>>
    ELSE LET a == Head(actions)
         IN  (IF a.instr = "writeXbytes"
              THEN write_data(a.addr, Len(a.bytes), a.bytes)
                   \o (IF a.erase THEN <<Sleep(10000)>> ELSE <<>>)
              ELSE <<>>)
             \o (IF a.instr = "delay" THEN <<Sleep(1000)>> ELSE <<>>)
             \o apply_actions(Tail(actions))

\* an image script as xmltodict hands it over: erase, program, delay
ImageScript ==
    << [instr |-> "writeXbytes", addr |-> 0, erase |-> TRUE, bytes |-> <<199>>],
       [instr |-> "writeXbytes", addr |-> 4, erase |-> FALSE, bytes |-> <<1, 2>>],
       [instr |-> "delay", addr |-> 0, erase |-> FALSE, bytes |-> <<>>] >>

\* image scripts: the one above; a delay before the first write and an
\* instruction the loop ignores; two erases in a row and nothing after them
Scripts ==
    << ImageScript,
       << [instr |-> "delay", addr |-> 0, erase |-> FALSE, bytes |-> <<>>],
          [instr |-> "writeXbytes", addr |-> 8, erase |-> FALSE, bytes |-> <<7>>],
          [instr |-> "readXbytes", addr |-> 8, erase |-> FALSE, bytes |-> <<9>>],
          [instr |-> "writeXbytes", addr |-> 9, erase |-> FALSE, bytes |-> <<8, 8, 8>>] >>,
       << [instr |-> "writeXbytes", addr |-> 0, erase |-> TRUE, bytes |-> <<199>>],
          [instr |-> "writeXbytes", addr |-> 0, erase |-> TRUE, bytes |-> <<216>>] >> >>

(***************************************************************************)
(* The device behind the bus                                               *)
(***************************************************************************)
\* the core stops on kill-core=1 and runs again on start-core=1
CoreAfter(c, x) ==
    IF x.kind = "w" /\ x.addr = KILLCORE_REG /\ x.bytes = <<0, 1>> THEN "halted"
    ELSE IF x.kind = "w" /\ x.addr = STARTCORE_REG /\ x.bytes = <<0, 1>> THEN "running"
    ELSE c

\* the payload index the device holds at byte address b after the transfers
\* of lg, -1 where nothing was written: a write request stores its payload
\* from cell addr on, CELL_BYTES bytes per cell
MemBytes == 65536 * CELL_BYTES
RECURSIVE MemAt(_, _)
MemAt(lg, b) ==
    IF lg = <<>> THEN -1
    ELSE LET x == lg[Len(lg)]
             d == (b - x.addr * CELL_BYTES) % MemBytes
         IN  IF x.kind = "w" /\ d < x.n - PREFIX
             THEN x.off + d
             ELSE MemAt(SubSeq(lg, 1, Len(lg) - 1), b)

\* spi.xfer of the read request x after the transfers of lg: the device answers
\* n bytes, the prefix echoed and then the bytes it holds from cell x.addr on;
\* the sequence is spi_response[3:], each byte given as the payload index that
\* was written there
spi_response(lg, x) ==
    [i \in 1..(x.n - PREFIX) |-> MemAt(lg, (x.addr * CELL_BYTES + (i - 1)) % MemBytes)]

(***************************************************************************)
(* Handler threads.  ThreadingMixIn runs each connection's handler in its  *)
(* own thread; SigmaTCPHandler.spi is one class attribute shared by all of *)
(* them and nothing guards it, so threads interleave between transfers.    *)
(***************************************************************************)
Conns == {1, 2}

None == [some |-> FALSE, bytes |-> <<>>]
Bytes(s) == [some |-> TRUE, bytes |-> s]
Unbound == [state |-> "unbound", op |-> 0, hdr |-> <<>>, n |-> 0]
NoOp == [name |-> "none", addr |-> 0, len |-> 0]

NoCall == [name |-> "none", addr |-> 0, len |-> 0, st |-> "idle",
           want |-> 0, got |-> 0, seq |-> 0]

\* SigmaTCP.__init__: self.socket = None; no operation has run
CliIdle ==
    /\ sock = "none" /\ autoconnect = TRUE /\ call = NoCall
    /\ rcvd = 0 /\ cevents = <<>>

ConnIdle ==
    /\ frames = <<>> /\ inflight = <<>> /\ peer = "open"
    /\ data = None /\ read_more = FALSE /\ result = Unbound
    /\ finished = FALSE /\ crash = "none"
    /\ sent = <<>> /\ processed = <<>> /\ spin = 0

\* a thread enters an operation: the transfers it will make are fixed by its
\* arguments, since no branch of these operations reads what a transfer returns
Begin(c, o, xs) ==
    /\ st' = [st EXCEPT ![c] = "busy"]
    /\ op' = [op EXCEPT ![c] = o]
    /\ todo' = [todo EXCEPT ![c] = xs]
    /\ UNCHANGED <<log, core, naps>>
    /\ UNCHANGED connVars
    /\ UNCHANGED cliVars

Entry(c, x) ==
    [conn |-> c, call |-> op[c].name, kind |-> x.kind, addr |-> x.addr,
     off |-> x.off, n |-> x.n, bytes |-> x.bytes]

Advance(c) ==
    /\ todo' = [todo EXCEPT ![c] = Tail(todo[c])]
    /\ st' = [st EXCEPT ![c] = IF Len(todo[c]) = 1 THEN "done" ELSE "busy"]
    /\ UNCHANGED op

\* spi.xfer(request) returns
XferOk(c) ==
    /\ st[c] = "busy"
    /\ Head(todo[c]).kind # "sleep"
    /\ log' = Append(log, Entry(c, Head(todo[c])))
    /\ core' = CoreAfter(core, Head(todo[c]))
    /\ Advance(c)
    /\ UNCHANGED naps
    /\ UNCHANGED connVars
    /\ UNCHANGED cliVars

\* spi.xfer(request) raises: the exception leaves the operation and the
\* handler, and nothing that was still to come is issued
XferFail(c) ==
    /\ st[c] = "busy"
    /\ Head(todo[c]).kind # "sleep"
    /\ st' = [st EXCEPT ![c] = "failed"]
    /\ todo' = [todo EXCEPT ![c] = <<>>]
    /\ UNCHANGED <<op, log, core, naps>>
    /\ UNCHANGED connVars
    /\ UNCHANGED cliVars

\* time.sleep returns
SleepDone(c) ==
    /\ st[c] = "busy"
    /\ Head(todo[c]).kind = "sleep"
    /\ Advance(c)
    /\ naps' = Append(naps, [conn |-> c, ms |-> Head(todo[c]).n,
                             after |-> Len(SelectSeq(log, LAMBDA e : e.conn = c))])
    /\ UNCHANGED <<log, core>>
    /\ UNCHANGED connVars
    /\ UNCHANGED cliVars

(***************************************************************************)
(* SpecTransport: one caller, write_data and spi_read over bounded inputs  *)
(***************************************************************************)
Addrs == {0, 4, 64536, 65000, 65535}
Rems == {0, 1, 90, 92, 93, 200}
WriteLens == {k * (SPI_SPLIT - PREFIX) + r : k \in 0..MaxBlocks, r \in Rems}
ReadLens == {0, 4, BLOCK_SIZE, CEILING - PREFIX, CEILING - PREFIX + 1}

\* handle_write -> write_data(addr, data) with n payload bytes
StartWrite(c, as, ls) ==
    /\ st[c] = "idle"
    /\ \E a \in as, n \in ls :
           Begin(c, [name |-> "write", addr |-> a, len |-> n], write_data(a, n, <<>>))

\* handle_read -> spi_read(addr, length)
StartRead(c, as, ls) ==
    /\ st[c] = "idle"
    /\ \E a \in as, n \in ls :
           Begin(c, [name |-> "read", addr |-> a, len |-> n], spi_read(a, n))

\* write_data(addr, data) and then spi_read(addr, len(data))
StartRoundTrip(c, as, ls) ==
    /\ st[c] = "idle"
    /\ \E a \in as, n \in ls :
           Begin(c, [name |-> "roundtrip", addr |-> a, len |-> n],
                 write_data(a, n, <<>>) \o spi_read(a, n))

InitTransport ==
    /\ st = [c \in Conns |-> IF c = 1 THEN "idle" ELSE "done"]
    /\ op = [c \in Conns |-> NoOp]
    /\ todo = [c \in Conns |-> <<>>]
    /\ log = <<>>
    /\ core = "running"
    /\ naps = <<>>
    /\ ConnIdle
    /\ CliIdle

NextTransport ==
    \/ StartWrite(1, Addrs, WriteLens)
    \/ StartRead(1, Addrs, ReadLens)
    \/ StartRoundTrip(1, Addrs, WriteLens)
    \/ XferOk(1)
    \/ XferFail(1)

SpecTransport == InitTransport /\ [][NextTransport]_vars

(***************************************************************************)
(* SpecBus: two connections, one operation each, on the shared bus         *)
(***************************************************************************)
\* COMMAND_CHECKSUM -> program_checksum()
StartChecksum(c) ==
    /\ st[c] = "idle"
    /\ Begin(c, [name |-> "checksum", addr |-> PROGRAM_ADDR, len |-> 0], program_checksum)

\* COMMAND_EEPROM_FILE -> write_eeprom_file(filename)
StartScript(c) ==
    /\ st[c] = "idle"
    /\ \E i \in 1..Len(Scripts) :
           Begin(c, [name |-> "script", addr |-> 0, len |-> i], apply_actions(Scripts[i]))

InitBus ==
    /\ st = [c \in Conns |-> "idle"]
    /\ op = [c \in Conns |-> NoOp]
    /\ todo = [c \in Conns |-> <<>>]
    /\ log = <<>>
    /\ core = "running"
    /\ naps = <<>>
    /\ ConnIdle
    /\ CliIdle

NextBus ==
    \E c \in Conns :
        \/ StartWrite(c, {0}, {8000})
        \/ StartRead(c, {0}, {4})
        \/ StartChecksum(c)
        \/ StartScript(c)
        \/ XferOk(c)
        \/ XferFail(c)
        \/ SleepDone(c)

SpecBus == InitBus /\ [][NextBus]_vars

(***************************************************************************)
(* The wire protocol: the client's request builders and the server's       *)
(* response header                                                         *)
(***************************************************************************)
\* bytearray(HEADER_SIZE) with the bytes of f set (0-based indices)
Header(f) == [i \in 1..HEADER_SIZE |-> IF (i - 1) \in DOMAIN f THEN f[i - 1] ELSE 0]

Lo(x) == x % 256
Hi(x) == (x \div 256) % 256

\* a read_request that writes the length low byte first
read_request_little_endian(addr, length) ==
    Header((0 :> COMMAND_READ) @@ (4 :> 14) @@ (8 :> Lo(length)) @@ (9 :> Hi(length))
           @@ (11 :> Lo(addr)) @@ (10 :> Hi(addr)))

\* SigmaTCP.read_request
read_request(addr, length) ==
    Header((0 :> COMMAND_READ) @@ (4 :> 14) @@ (9 :> Lo(length)) @@ (8 :> Hi(length))
           @@ (11 :> Lo(addr)) @@ (10 :> Hi(addr)))

\* SigmaTCP.write_request
write_request(addr, payload) ==
    Header((0 :> COMMAND_WRITE) @@ (11 :> Lo(Len(payload))) @@ (10 :> Hi(Len(payload)))
           @@ (13 :> Lo(addr)) @@ (12 :> Hi(addr))
           @@ (6 :> Lo(HEADER_SIZE + Len(payload))) @@ (5 :> Hi(HEADER_SIZE + Len(payload))))
    \o payload

\* SigmaTCP.write_eeprom_request
write_eeprom_request(filename) ==
    Header((0 :> COMMAND_EEPROM_FILE) @@ (1 :> Len(filename))) \o filename \o <<0>>

\* SigmaTCP.generic_request
generic_request(request_type) == Header(0 :> request_type)

\* an EEPROM_CONTENT frame as handle() reads it: total length in bytes 3..6
eeprom_content_request(content) ==
    Header((0 :> COMMAND_EEPROM_CONTENT)
           @@ (6 :> Lo(HEADER_SIZE + Len(content))) @@ (5 :> Hi(HEADER_SIZE + Len(content))))
    \o content

\* SigmaTCPHandler._response_packet
_response_packet(command, addr, data_length) ==
    Header((0 :> command) @@ (4 :> 14) @@ (5 :> 1)
           @@ (9 :> Lo(data_length)) @@ (8 :> Hi(data_length))
           @@ (11 :> Lo(addr)) @@ (10 :> Hi(addr)))

\* spi_read, lines 409-416: the response packet, its header and its payload
read_response(lg, x) ==
    [hdr |-> _response_packet(COMMAND_READRESPONSE, x.addr, x.n - PREFIX),
     payload |-> spi_response(lg, x)]

\* int.from_bytes(s, byteorder='big'); values from 2^30 on, larger than every
\* length of the model, are all given as 2^30
Huge == 1073741824
RECURSIVE from_bytes(_)
from_bytes(s) ==
    IF s = <<>> THEN 0
    ELSE LET hi == from_bytes(SubSeq(s, 1, Len(s) - 1))
         IN  IF hi >= Huge \div 256 THEN Huge ELSE hi * 256 + s[Len(s)]

(***************************************************************************)
(* The files write_eeprom_file can be pointed at                           *)
(***************************************************************************)
\* "f" holds an image script, "x" holds text that xmltodict cannot parse,
\* every other name ("m", "") is no file
FileKind(filename) ==
    IF filename = <<102>> THEN "script"
    ELSE IF filename = <<120>> THEN "garbage"
    ELSE "missing"

(***************************************************************************)
(* SigmaTCPHandler.handle: one iteration of the while loop.  h is the      *)
(* handler's state, rx what this iteration's recv returned (at most one    *)
(* recv runs per iteration), pipe whether a send goes through.             *)
(***************************************************************************)
Value(o, hdr, n) == [state |-> "value", op |-> o, hdr |-> hdr, n |-> n]
NoneResult == [state |-> "none", op |-> 0, hdr |-> <<>>, n |-> 0]

\* what an opcode branch did: the exception it raised ("none" if it returned),
\* the bus transfers it made, and the value it left in result
Did(e, xs, res) == [crash |-> e, xfers |-> xs, res |-> res]

\* what a frame was decoded to: the address, the length and the payload or
\* filename its branch works on
Args(addr, n, bytes) == [addr |-> addr, n |-> n, bytes |-> bytes]
\* a read decoder that takes the address from its low byte alone
read_args_low_byte(d) == Args(from_bytes(Slice(d, 11, 12)), from_bytes(Slice(d, 6, 10)), <<>>)

read_args(d) == Args(from_bytes(Slice(d, 10, 12)), from_bytes(Slice(d, 6, 10)), <<>>)
write_args(d) == Args(from_bytes(Slice(d, 12, 14)), Len(SliceFrom(d, 14)), SliceFrom(d, 14))
bytes_args(s) == Args(0, Len(s), s)

\* handle_read and spi_read: the response is the header and the length bytes
\* the transfer returned after the prefix
handle_read(d) ==
    LET addr == from_bytes(Slice(d, 10, 12))
        length == from_bytes(Slice(d, 6, 10))
    IN  IF Len(d) < 12 THEN Did("IndexError", <<>>, NoneResult)
        ELSE Did("none", spi_read(addr, length),
                 Value(COMMAND_READRESPONSE,
                       _response_packet(COMMAND_READRESPONSE, addr, length), length))

\* handle_write: length == 0 runs "length = length(data) - 14", a call of an int
handle_write(d) ==
    LET addr == from_bytes(Slice(d, 12, 14))
        length == from_bytes(Slice(d, 8, 12))
    IN  IF length = 0 THEN Did("TypeError", <<>>, NoneResult)
        ELSE IF Len(d) < 2 THEN Did("IndexError", <<>>, NoneResult)
        ELSE Did("none",
                 write_data(addr, Len(SliceFrom(d, 14)), SliceFrom(d, 14)),
                 NoneResult)

\* write_eeprom_file: open and parse raise for a missing or unparsable file;
\* nothing in write_eeprom_file or handle catches either
write_eeprom_file(filename) ==
    CASE FileKind(filename) = "missing" -> Did("FileNotFoundError", <<>>, NoneResult)
      [] FileKind(filename) = "garbage" -> Did("ExpatError", <<>>, NoneResult)
      [] OTHER -> Did("none", apply_actions(ImageScript), Value(1, <<1>>, 0))

\* write_eeprom_content: its first statement assigns the local name tempfile
\* from tempfile.NamedTemporaryFile, reading the local before it is bound
write_eeprom_content(content) == Did("UnboundLocalError_tempfile", <<>>, NoneResult)

\* COMMAND_CHECKSUM: _response_packet(...) + program_checksum(), a 16-byte digest
checksum_branch ==
    Did("none", program_checksum,
        Value(COMMAND_CHECKSUM_RESPONSE,
              _response_packet(COMMAND_CHECKSUM_RESPONSE, 0, 16), 16))

Logged(lg, xs) ==
    lg \o [k \in 1..Len(xs) |->
            [conn |-> 1, call |-> "handle", kind |-> xs[k].kind, addr |-> xs[k].addr,
             off |-> xs[k].off, n |-> xs[k].n, bytes |-> xs[k].bytes]]

Transfers(xs) == SelectSeq(xs, LAMBDA x : x.kind # "sleep")

RECURSIVE CoreAfterAll(_, _)
CoreAfterAll(c, xs) ==
    IF xs = <<>> THEN c ELSE CoreAfterAll(CoreAfter(c, Head(xs)), Tail(xs))

\* lines 305-309, 324-328, 358-362: read_more = True; continue
wait_more(h, d) == [h EXCEPT !.data = Bytes(d), !.read_more = TRUE]

\* lines 366-375, after the branch of opcode o ran on the frame d, decoded to
\* args, and did b;
\* res is result as the branch left it, buffer the bytes kept for the next frame
after_branch(h, d, o, args, b, res, buffer, pipe) ==
    LET h1 == [h EXCEPT !.data = Bytes(d),
                        !.processed = Append(@, [op |-> o, addr |-> args.addr,
                                                 n |-> args.n, bytes |-> args.bytes]),
                        !.log = Logged(@, Transfers(b.xfers)),
                        !.core = CoreAfterAll(@, b.xfers)]
    IN  IF b.crash # "none" THEN [h1 EXCEPT !.crash = b.crash]
        ELSE IF res.state = "unbound" THEN [h1 EXCEPT !.crash = "UnboundLocalError_result"]
        ELSE IF res.state = "value" /\ Len(res.hdr) + res.n > 0 /\ ~pipe
        THEN [h1 EXCEPT !.result = res, !.finished = TRUE]
        ELSE [h1 EXCEPT !.result = res,
                        !.sent = IF res.state = "value" /\ Len(res.hdr) + res.n > 0
                                 THEN Append(@, [on |-> o, hdr |-> res.hdr, n |-> res.n])
                                 ELSE @,
                        !.data = buffer]

\* lines 320-322 and 354-356: a frame shorter than the buffered bytes is cut
\* off and the rest kept
cut_frame(d, command_length) ==
    IF command_length < Len(d)
    THEN [length |-> command_length, frame |-> Slice(d, 0, command_length),
          buffer |-> Bytes(SliceFrom(d, command_length))]
    ELSE [length |-> command_length, frame |-> d, buffer |-> None]

\* a length check that lets 13 bytes through
short_header_off_by_one(d) == Len(d) > 0 /\ Len(d) < 13

\* lines 298-300: fewer than 14 bytes are no header yet
short_header(d) == Len(d) > 0 /\ Len(d) < 14

\* lines 302-364: the opcode branches
dispatch(h, d, pipe) ==
    IF Len(d) = 0 THEN [h EXCEPT !.data = Bytes(d), !.crash = "IndexError"]
    ELSE IF d[1] = COMMAND_READ THEN
        LET command_length == from_bytes(Slice(d, 1, 5))
        IN  IF command_length > 0 /\ Len(d) < command_length THEN wait_more(h, d)
            ELSE Bind(handle_read(d), LAMBDA b :
                    after_branch(h, d, d[1], read_args(d), b, b.res, None, pipe))
    ELSE IF d[1] = COMMAND_WRITE THEN
        Bind(cut_frame(d, from_bytes(Slice(d, 3, 7))), LAMBDA c :
            IF c.length > 0 /\ Len(c.frame) < c.length THEN wait_more(h, c.frame)
            ELSE Bind(handle_write(c.frame), LAMBDA b :
                    after_branch(h, c.frame, d[1], write_args(c.frame), b, NoneResult,
                                 c.buffer, pipe)))
    ELSE IF d[1] = COMMAND_EEPROM_FILE THEN
        LET filename == IF Len(d) < 2 THEN <<>> ELSE Slice(d, 14, 14 + d[2])
        IN  Bind(write_eeprom_file(filename), LAMBDA b :
                after_branch(h, d, d[1], bytes_args(filename), b, b.res, None, pipe))
    ELSE IF d[1] = COMMAND_CHECKSUM THEN
        Bind(checksum_branch, LAMBDA b :
            after_branch(h, d, d[1], bytes_args(<<>>), b, b.res, None, pipe))
    ELSE IF d[1] = COMMAND_EEPROM_CONTENT THEN
        Bind(cut_frame(d, from_bytes(Slice(d, 3, 7))), LAMBDA c :
            IF c.length > 0 /\ Len(c.frame) < c.length THEN wait_more(h, c.frame)
            ELSE Bind(write_eeprom_content(Slice(c.frame, 14, c.length)), LAMBDA b :
                    after_branch(h, c.frame, d[1],
                                 bytes_args(Slice(c.frame, 14, c.length)), b, b.res,
                                 c.buffer, pipe)))
    ELSE after_branch(h, d, d[1], bytes_args(<<>>), Did("none", <<>>, NoneResult),
                      h.result, None, pipe)

\* lines 283-300: the receives, then the length check
handle_iter(h, rx, pipe) ==
    IF ~h.data.some /\ Len(rx) = 0
    THEN [h EXCEPT !.data = Bytes(rx), !.finished = TRUE]
    ELSE Bind((IF ~h.data.some THEN rx
               ELSE IF h.read_more THEN h.data.bytes \o rx
               ELSE h.data.bytes), LAMBDA d :
            IF short_header(d)
            THEN wait_more([h EXCEPT !.read_more = FALSE], d)
            ELSE dispatch([h EXCEPT !.read_more = FALSE], d, pipe))

(***************************************************************************)
(* SpecHandler: one connection                                             *)
(***************************************************************************)
\* the request bytes [READ,0,0,0,14,0,0,0,0,0,4,0,0,0]
ScenarioRequest == <<COMMAND_READ, 0, 0, 0, 14, 0, 0, 0, 0, 0, 4, 0, 0, 0>>

Frame(name) ==
    CASE name = "read" -> read_request(4, 2)
      [] name = "scenario" -> ScenarioRequest
      [] name = "write" -> write_request(5, <<7, 8>>)
      [] name = "write0" -> write_request(5, <<>>)
      [] name = "file" -> write_eeprom_request(<<102>>)
      [] name = "nofile" -> write_eeprom_request(<<109>>)
      [] name = "badfile" -> write_eeprom_request(<<120>>)
      [] name = "checksum" -> generic_request(COMMAND_CHECKSUM)
      [] name = "content" -> eeprom_content_request(<<60>>)
      [] OTHER -> generic_request(COMMAND_READRESPONSE)

FrameNames == {"read", "scenario", "write", "write0", "file", "nofile", "badfile",
               "checksum", "content", "other"}

RECURSIVE Stream(_)
Stream(fs) == IF fs = <<>> THEN <<>> ELSE Frame(Head(fs)) \o Stream(Tail(fs))

H0 == [data |-> None, read_more |-> FALSE, result |-> Unbound, finished |-> FALSE,
       crash |-> "none", sent |-> <<>>, processed |-> <<>>, log |-> <<>>,
       core |-> "running"]

HNow == [data |-> data, read_more |-> read_more, result |-> result,
         finished |-> finished, crash |-> crash, sent |-> sent,
         processed |-> processed, log |-> log, core |-> core]

Becomes(h) ==
    /\ data' = h.data /\ read_more' = h.read_more /\ result' = h.result
    /\ finished' = h.finished /\ crash' = h.crash /\ sent' = h.sent
    /\ processed' = h.processed /\ log' = h.log /\ core' = h.core

Running == ~finished /\ crash = "none"
NeedsRecv == ~data.some \/ read_more

InitHandler ==
    /\ st = [c \in Conns |-> "done"]
    /\ op = [c \in Conns |-> NoOp]
    /\ todo = [c \in Conns |-> <<>>]
    /\ log = <<>>
    /\ core = "running"
    /\ \E k \in 1..MaxFrames : frames \in [1..k -> FrameNames]
    /\ inflight = Stream(frames)
    /\ peer = "open"
    /\ data = None /\ read_more = FALSE /\ result = Unbound
    /\ finished = FALSE /\ crash = "none"
    /\ sent = <<>> /\ processed = <<>> /\ spin = 0
    /\ naps = <<>>
    /\ CliIdle

\* recv returns the next k bytes of the stream, k one of ks
Recv(ks) ==
    /\ Running /\ NeedsRecv
    /\ \E k \in ks :
          /\ inflight' = SubSeq(inflight, k + 1, Len(inflight))
          /\ \E h \in {handle_iter(HNow, SubSeq(inflight, 1, k), TRUE)} : Becomes(h)
    /\ UNCHANGED <<st, op, todo, frames, peer, spin, naps>>
    /\ UNCHANGED cliVars

\* recv returns any number of the bytes in flight
HandleRecv ==
    /\ Running
    /\ Recv(1..Len(inflight))

\* recv returns b'': the peer has closed and nothing is left to read
HandleEof ==
    /\ Running /\ NeedsRecv
    /\ peer = "closed" /\ inflight = <<>>
    /\ \E h \in {handle_iter(HNow, <<>>, TRUE)} : Becomes(h)
    /\ spin' = IF data.some THEN 1 - spin ELSE spin
    /\ UNCHANGED <<st, op, todo, frames, peer, inflight, naps>>
    /\ UNCHANGED cliVars

\* recv raises ConnectionResetError (lines 377-378)
HandleReset ==
    /\ Running /\ NeedsRecv
    /\ peer = "reset"
    /\ finished' = TRUE
    /\ UNCHANGED <<st, op, todo, log, core, frames, inflight, peer, data, read_more,
                   result, crash, sent, processed, spin, naps>>
    /\ UNCHANGED cliVars

\* an iteration that finds the bytes kept from the last receive and reads none;
\* its send raises BrokenPipeError only if the peer is gone (lines 379-380)
HandleBuffered ==
    /\ Running /\ ~NeedsRecv
    /\ \E pipe \in (IF peer = "open" THEN {TRUE} ELSE BOOLEAN) :
          \E h \in {handle_iter(HNow, <<>>, pipe)} : Becomes(h)
    /\ UNCHANGED <<st, op, todo, frames, inflight, peer, spin, naps>>
    /\ UNCHANGED cliVars

\* the peer closes the connection; what it had not sent never arrives
PeerClose ==
    /\ peer = "open"
    /\ peer' = "closed"
    /\ inflight' = <<>>
    /\ UNCHANGED <<st, op, todo, log, core, frames, data, read_more, result,
                   finished, crash, sent, processed, spin, naps>>
    /\ UNCHANGED cliVars

\* the connection is reset
PeerReset ==
    /\ peer = "open"
    /\ peer' = "reset"
    /\ inflight' = <<>>
    /\ UNCHANGED <<st, op, todo, log, core, frames, data, read_more, result,
                   finished, crash, sent, processed, spin, naps>>
    /\ UNCHANGED cliVars

NextHandler ==
    \/ HandleRecv
    \/ HandleEof
    \/ HandleReset
    \/ HandleBuffered
    \/ PeerClose
    \/ PeerReset

SpecHandler == InitHandler /\ [][NextHandler]_vars

\* the handler thread keeps running while it can take a step
FairHandler ==
    /\ SpecHandler
    /\ WF_vars(HandleRecv) /\ WF_vars(HandleEof)
    /\ WF_vars(HandleReset) /\ WF_vars(HandleBuffered)

(***************************************************************************)
(* The client, SigmaTCP, talking to the handler of its connection          *)
(* (SpecClient).  The client is single-threaded: an operation that reads   *)
(* blocks in recv until the socket hands it something.                     *)
(***************************************************************************)
\* SigmaTCP.int_data(intval, length): the length low bytes, high byte first
int_data(intval, length) ==
    [i \in 1..length |-> (intval \div (256 ^ (length - i))) % 256]

Event(ev, name) == [ev |-> ev, op |-> name]

\* SigmaTCP.connect: ok is whether socket.connect returns; an IOError leaves
\* self.socket None and raises SigmaTCPException
connect(ok, name) ==
    IF ok THEN [sock |-> "open", events |-> <<Event("connect", name)>>, raised |-> "none"]
    ELSE [sock |-> "none", events |-> <<Event("connect_failed", name)>>,
          raised |-> "CouldNotConnect"]

\* an operation that sends although it holds no socket
ensure_connected_never_raises(s, auto, ok, name) ==
    IF s = "none" /\ auto THEN connect(ok, name)
    ELSE [sock |-> s, events |-> <<>>, raised |-> "none"]

\* lines 81-85 (and 95-99, 109-113, 119-123): the start of every operation
ensure_connected(s, auto, ok, name) ==
    IF s # "none" THEN [sock |-> s, events |-> <<>>, raised |-> "none"]
    ELSE IF auto THEN connect(ok, name)
    ELSE [sock |-> "none", events |-> <<>>, raised |-> "NotConnected"]

\* the byte counts one recv is seen to return when m bytes could be returned
RecvSizes(m) == {k \in {HEADER_SIZE - 1, HEADER_SIZE, m} : 1 <= k /\ k <= m}

RECURSIVE Flatten(_)
Flatten(ps) == IF ps = <<>> THEN <<>> ELSE Head(ps) \o Flatten(Tail(ps))

RECURSIVE SentBytes(_)
SentBytes(ss) ==
    IF ss = <<>> THEN 0
    ELSE Len(Head(ss).hdr) + Head(ss).n + SentBytes(Tail(ss))

\* the server accepts the connection and starts a handler for it
Accepted ==
    /\ peer' = "open" /\ data' = None /\ read_more' = FALSE /\ result' = Unbound
    /\ finished' = FALSE /\ crash' = "none" /\ spin' = 0
    /\ sent' = <<>> /\ processed' = <<>> /\ rcvd' = 0

\* the handler of the connection goes on as it is
SameHandler ==
    UNCHANGED <<peer, data, read_more, result, finished, crash, spin, sent,
                processed, rcvd>>

CanCall == call.st # "waiting" /\ call.seq < MaxCalls

\* an operation named name with arguments a and n: ensure a connection, then
\* (if go) socket.send each packet of packets in turn, then recv(want) if want
\* is not 0.  An operation made of several write_memory calls sends several
\* packets; only the first call can find the socket None.
ClientOp(name, a, n, go, packets, want) ==
    /\ \E ok \in (IF sock = "none" /\ autoconnect THEN BOOLEAN ELSE {TRUE}) :
       \E e \in {ensure_connected(sock, autoconnect, ok, name)} :
          /\ sock' = e.sock
          /\ IF e.raised # "none"
             THEN /\ call' = [name |-> name, addr |-> a, len |-> n, st |-> e.raised,
                              want |-> want, got |-> 0, seq |-> call.seq + 1]
                  /\ cevents' = cevents \o e.events
                  /\ UNCHANGED inflight
                  /\ SameHandler
             ELSE /\ call' = [name |-> name, addr |-> a, len |-> n,
                              st |-> IF ~go THEN "IOError"
                                     ELSE IF want > 0 THEN "waiting" ELSE "returned",
                              want |-> want, got |-> 0, seq |-> call.seq + 1]
                  /\ cevents' = cevents \o e.events
                        \o (IF go THEN [k \in 1..Len(packets) |-> Event("send", name)]
                            ELSE <<>>)
                  /\ IF e.events # <<>>
                     THEN /\ Accepted
                          /\ inflight' = IF go THEN Flatten(packets) ELSE <<>>
                     ELSE /\ SameHandler
                          /\ inflight' = IF go /\ peer = "open"
                                         THEN inflight \o Flatten(packets)
                                         ELSE inflight
    /\ UNCHANGED <<st, op, todo, log, core, frames, naps, autoconnect>>

\* the (address, length) pairs of the client's reads
CallPairs == {<<0, 0>>, <<4, 2>>, <<1024, 0>>, <<255, 256>>, <<256, 255>>,
              <<65535, 65535>>}

\* SigmaTCP.read_memory(addr, length)
ReadMemory ==
    /\ CanCall
    /\ \E p \in CallPairs :
          ClientOp("read_memory", p[1], p[2], TRUE, <<read_request(p[1], p[2])>>,
                   HEADER_SIZE + p[2])

\* SigmaTCP.program_checksum()
ProgramChecksum ==
    /\ CanCall
    /\ ClientOp("program_checksum", 0, 16, TRUE, <<generic_request(COMMAND_CHECKSUM)>>,
                HEADER_SIZE + 16)

\* SigmaTCP.write_memory(addr, data)
WriteMemory ==
    /\ CanCall
    /\ \E payload \in {<<>>, <<7, 8>>} :
          ClientOp("write_memory", 5, Len(payload), TRUE,
                   <<write_request(5, payload)>>, 0)

\* SigmaTCP.write_eeprom(filename): exists is os.path.exists(filename)
WriteEeprom ==
    /\ CanCall
    /\ \E exists \in BOOLEAN :
          ClientOp("write_eeprom", 0, 1, exists, <<write_eeprom_request(<<102>>)>>, 1)

\* SigmaTCP.write_decimal(addr, value): value as dsp.decimal_repr gives it
write_decimal(addr, value) == write_request(addr, int_data(value, DECIMAL_LEN))

WriteDecimal ==
    /\ CanCall
    /\ ClientOp("write_decimal", 8, DECIMAL_LEN, TRUE, <<write_decimal(8, 16777216)>>, 0)

\* SigmaTCP.write_decibel(addr, db): write_decimal of the amplification
WriteDecibel ==
    /\ CanCall
    /\ ClientOp("write_decibel", 8, DECIMAL_LEN, TRUE, <<write_decimal(8, 8388608)>>, 0)

\* SigmaTCP.write_biquad(start_addr, bq): -a1, -a2, b0, b1, b2 written to
\* start_addr + 4 down to start_addr
write_biquad(start_addr, bq_params) ==
    [k \in 1..Len(bq_params) |-> write_decimal(start_addr + 4 - (k - 1), bq_params[k])]

WriteBiquad ==
    /\ CanCall
    /\ ClientOp("write_biquad", 16, DECIMAL_LEN, TRUE,
                write_biquad(16, <<1, 2, 3, 4, 5>>), 0)

\* SigmaTCP.reset(): 0 and then 1 written to the reset register
Reset ==
    /\ CanCall
    /\ ClientOp("reset", RESET_REG, REG_LEN, TRUE,
                <<write_request(RESET_REG, int_data(0, REG_LEN)),
                  write_request(RESET_REG, int_data(1, REG_LEN))>>, 0)

\* SigmaTCP.hibernate(onoff)
Hibernate ==
    /\ CanCall
    /\ \E onoff \in BOOLEAN :
          ClientOp("hibernate", HIBERNATE_REG, REG_LEN, TRUE,
                   <<write_request(HIBERNATE_REG,
                                   int_data(IF onoff THEN 1 ELSE 0, REG_LEN))>>, 0)

\* the handler's recv on the client's connection
ServerRecv ==
    /\ Running
    /\ Recv(RecvSizes(Len(inflight)))

\* SigmaTCP.connect() called by the user of the client
Connect ==
    /\ CanCall
    /\ \E ok \in BOOLEAN :
       \E e \in {connect(ok, "connect")} :
          /\ sock' = e.sock
          /\ cevents' = cevents \o e.events
          /\ call' = [name |-> "connect", addr |-> 0, len |-> 0,
                      st |-> IF ok THEN "returned" ELSE e.raised,
                      want |-> 0, got |-> 0, seq |-> call.seq + 1]
          /\ IF ok THEN Accepted /\ inflight' = <<>>
             ELSE /\ UNCHANGED <<data, read_more, result, finished, crash, spin,
                                 sent, processed, rcvd, inflight>>
                  /\ peer' = IF sock = "open" THEN "closed" ELSE peer
    /\ UNCHANGED <<st, op, todo, log, core, frames, naps, autoconnect>>

\* SigmaTCP.disconnect()
Disconnect ==
    /\ CanCall
    /\ sock' = "none"
    /\ cevents' = IF sock = "none" THEN cevents
                  ELSE Append(cevents, Event("disconnect", "disconnect"))
    /\ peer' = IF sock = "open" THEN "closed" ELSE peer
    /\ call' = [name |-> "disconnect", addr |-> 0, len |-> 0, st |-> "returned",
                want |-> 0, got |-> 0, seq |-> call.seq + 1]
    /\ UNCHANGED <<st, op, todo, log, core, frames, naps, autoconnect, inflight,
                   data, read_more, result, finished, crash, spin, sent,
                   processed, rcvd>>


\* socket.recv(want) returns: at least one byte and at most want of the bytes
\* that have arrived, or no byte when the server has closed the connection
ClientRecv ==
    /\ call.st = "waiting"
    /\ LET avail == SentBytes(sent) - rcvd
       IN  IF avail > 0
           THEN \E k \in RecvSizes(Min(avail, call.want)) :
                   /\ call' = [call EXCEPT !.st = "returned", !.got = k]
                   /\ rcvd' = rcvd + k
           ELSE /\ (finished \/ crash # "none")
                /\ call' = [call EXCEPT !.st = "returned", !.got = 0]
                /\ rcvd' = rcvd
    /\ UNCHANGED <<st, op, todo, log, core, frames, naps, autoconnect, inflight,
                   peer, data, read_more, result, finished, crash, spin, sent,
                   processed, sock, cevents>>

InitClient ==
    /\ st = [c \in Conns |-> "done"]
    /\ op = [c \in Conns |-> NoOp]
    /\ todo = [c \in Conns |-> <<>>]
    /\ log = <<>>
    /\ core = "running"
    /\ naps = <<>>
    /\ frames = <<>> /\ inflight = <<>> /\ peer = "closed"
    /\ data = None /\ read_more = FALSE /\ result = Unbound
    /\ finished = TRUE /\ crash = "none"
    /\ sent = <<>> /\ processed = <<>> /\ spin = 0
    /\ sock = "none" /\ autoconnect \in BOOLEAN /\ call = NoCall
    /\ rcvd = 0 /\ cevents = <<>>

NextClient ==
    \/ Connect
    \/ Disconnect
    \/ ReadMemory
    \/ ProgramChecksum
    \/ WriteMemory
    \/ WriteEeprom
    \/ WriteDecimal
    \/ WriteDecibel
    \/ WriteBiquad
    \/ Reset
    \/ Hibernate
    \/ ClientRecv
    \/ ServerRecv
    \/ HandleEof
    \/ HandleBuffered

SpecClient == InitClient /\ [][NextClient]_vars

(***************************************************************************)
(* Properties of the connection handler (SpecHandler, FairHandler)         *)
(***************************************************************************)
\* the bytes the handler holds for the current frame once this step's receive
\* has returned
BufferedAfterRecv ==
    (IF data.some THEN Len(data.bytes) ELSE 0) + (Len(inflight) - Len(inflight'))

\* C4: an iteration that holds between 1 and 13 bytes for the current frame
\* dispatches nothing: it makes no bus transfer, sends no byte, runs no opcode
\* branch and does not fail
C4_NoDispatchBelowHeader ==
    [][(Running /\ peer' = peer /\ BufferedAfterRecv \in 1..(HEADER_SIZE - 1))
        => (log' = log /\ sent' = sent /\ processed' = processed
            /\ crash' = "none" /\ read_more')]_vars

\* 13 bytes of a frame are buffered after an earlier frame was answered, and the
\* handler waits for more
C4_Witness ==
    /\ data.some /\ Len(data.bytes) = HEADER_SIZE - 1 /\ read_more
    /\ Len(processed) = 1 /\ Len(sent) = 1 /\ crash = "none"

\* the peer keeps the connection open, and the handler has left handle() with
\* an exception or has received every byte sent and waits in recv
Settled ==
    /\ peer = "open"
    /\ (crash # "none" \/ (inflight = <<>> /\ ~finished /\ NeedsRecv))

\* what handle() did with a connection: the frames it ran and their decoded
\* arguments, the bus transfers, the responses, the exception
Outcome(h) == <<h.processed, h.log, h.sent, h.crash>>

\* C5: a frame delivered in pieces has the same dispatch result as the same
\* frame delivered in one piece
C5_SplitLikeWhole ==
    (Len(frames) = 1 /\ Settled)
        => Outcome(HNow) = Outcome(handle_iter(H0, Frame(frames[1]), TRUE))

\* C6: when all frames of a connection have arrived and the handler has not
\* failed, every frame sent was dispatched once, in the order sent
C6_PipelinedFramesAllProcessed ==
    (Settled /\ crash = "none")
        => /\ Len(processed) = Len(frames)
           /\ \A k \in DOMAIN processed : processed[k].op = Frame(frames[k])[1]

\* C7: once the peer has closed the connection, the handler's loop ends
C7_CloseEndsLoop == (peer = "closed") ~> (finished \/ crash # "none")

KnownOpcodes ==
    {COMMAND_READ, COMMAND_WRITE, COMMAND_EEPROM_FILE, COMMAND_CHECKSUM,
     COMMAND_EEPROM_CONTENT}

\* C8: a frame with an unknown opcode makes the handler send nothing and does
\* not make it fail
C8_UnknownOpcodeNoOp ==
    /\ \A k \in DOMAIN sent : sent[k].on \in KnownOpcodes
    /\ crash # "UnboundLocalError_result"

\* C13: the 14 request bytes [READ,0,0,0,14,0,0,0,0,0,4,0,0,0] are run as one
\* complete READ frame with dataLength 0 and address 1024, bytes 10 and 11
\* of the frame being the address high byte first
C13_ScenarioDecoded ==
    (frames = <<"scenario">> /\ Settled)
    => /\ processed = <<[op |-> COMMAND_READ, addr |-> 1024, n |-> 0, bytes |-> <<>>]>>
       /\ data = None /\ ~read_more /\ crash = "none"

\* C13 as stated: the same request is run as one complete READ frame with
\* dataLength 0 and address 4
C13_ScenarioAddressFour ==
    (frames = <<"scenario">> /\ Settled)
    => /\ processed = <<[op |-> COMMAND_READ, addr |-> 4, n |-> 0, bytes |-> <<>>]>>
       /\ data = None /\ ~read_more /\ crash = "none"

\* the scenario's request has arrived in two pieces and was run
C13_Witness ==
    /\ frames = <<"scenario">> /\ Settled
    /\ Len(processed) = 1 /\ Len(sent) = 1 /\ Len(log) = 1

\* C14: write_eeprom_content raises nothing into handle(): after an
\* EEPROM_CONTENT frame, whatever its payload, the handler has not failed and
\* holds the one result byte of the call
C14_EepromContentReturnsByte ==
    (processed # <<>> /\ processed[Len(processed)].op = COMMAND_EEPROM_CONTENT)
    => /\ crash = "none"
       /\ result.state = "value" /\ Len(result.hdr) + result.n = 1

\* C20: a complete WRITE frame that declares a dataLength of zero and carries
\* no payload leaves the handler running: handling it has raised nothing
C20_ZeroLengthWriteIgnored ==
    (/\ processed # <<>>
     /\ processed[Len(processed)].op = COMMAND_WRITE
     /\ processed[Len(processed)].n = 0)
    => crash = "none"

\* C15: an EEPROM_FILE request that names a file leaves the handler running
\* with one response byte for the connection, 1 when the file's script was
\* applied and 0 when the file is missing or cannot be parsed
C15_EepromFileAnswered ==
    (/\ processed # <<>>
     /\ processed[Len(processed)].op = COMMAND_EEPROM_FILE
     /\ processed[Len(processed)].bytes # <<>>)
    => /\ crash = "none"
       /\ result.state = "value" /\ result.n = 0
       /\ result.hdr = <<IF FileKind(processed[Len(processed)].bytes) = "script"
                          THEN 1 ELSE 0>>

(***************************************************************************)
(* Properties of the shared bus (SpecBus)                                  *)
(***************************************************************************)
\* the transfers of connection c's operation lie next to each other in the log
Contiguous(c) ==
    \A i, k \in DOMAIN log :
        (i < k /\ log[i].conn = c /\ log[k].conn = c)
            => \A j \in i..k : log[j].conn = c

\* C1: when two connections each run a chunked write_data call, no transfer of
\* the other connection occurs between the first and the last transfer of one
\* call
C1_WriteChunksNotInterleaved ==
    (\A c \in Conns : op[c].name = "write") => \A c \in Conns : Contiguous(c)

\* C2: from the first halt write of a program_checksum to its last start-core
\* write no transfer of another connection occurs on the bus
C2_ChecksumAtomic ==
    \A c \in Conns : op[c].name = "checksum" => Contiguous(c)

RegWrites(c, reg, val) ==
    Cardinality({k \in DOMAIN log :
        /\ log[k].conn = c /\ log[k].kind = "w"
        /\ log[k].addr = reg /\ log[k].bytes = val})

\* C3: a program_checksum that has ended, by returning or by an error of a
\* block read, has issued exactly one start-core sequence for the halt sequence
\* it issued
C3_RestartAfterHalt ==
    \A c \in Conns :
        (op[c].name = "checksum" /\ st[c] \in {"done", "failed"}
            /\ RegWrites(c, KILLCORE_REG, <<0, 1>>) = 1)
        => /\ RegWrites(c, STARTCORE_REG, <<0, 0>>) = 1
           /\ RegWrites(c, STARTCORE_REG, <<0, 1>>) = 1

\* the transfers connection c has made, each as what went over the bus
ConnLog(c) ==
    LET mine == SelectSeq(log, LAMBDA e : e.conn = c)
    IN  [k \in 1..Len(mine) |->
            [kind |-> mine[k].kind, addr |-> mine[k].addr, n |-> mine[k].n,
             bytes |-> mine[k].bytes]]

IsPrefix(s, t) == Len(s) <= Len(t) /\ s = SubSeq(t, 1, Len(s))

RegWrite(reg, val) == [kind |-> "w", addr |-> reg, n |-> PREFIX + Len(val), bytes |-> val]

\* ceil(program_length * word_length / 2048)
ChecksumBlocks == (ProgramLength * WORD_LENGTH + BLOCK_SIZE - 1) \div BLOCK_SIZE

\* hibernate=1, kill-core=0, kill-core=1, the block reads in increasing
\* address, start-core=0, start-core=1
ChecksumOrder ==
    <<RegWrite(HIBERNATE_REG, <<0, 1>>), RegWrite(KILLCORE_REG, <<0, 0>>),
      RegWrite(KILLCORE_REG, <<0, 1>>)>>
    \o [k \in 1..ChecksumBlocks |->
          [kind |-> "r", addr |-> PROGRAM_ADDR + (k - 1) * (BLOCK_SIZE \div WORD_LENGTH),
           n |-> PREFIX + BLOCK_SIZE, bytes |-> <<>>]]
    \o <<RegWrite(STARTCORE_REG, <<0, 0>>), RegWrite(STARTCORE_REG, <<0, 1>>)>>

\* C18: the transfers of a program_checksum are, at every moment, the first
\* ones of: hibernate=1, kill-core=0, kill-core=1, one 2048-byte read per
\* block at program_addr + k * (2048 / word_length) for k = 0, 1, ... up to
\* ceil(program_length * word_length / 2048) blocks, start-core=0,
\* start-core=1; a program_checksum that has returned has made all of them
C18_ChecksumTransferOrder ==
    \A c \in Conns :
        op[c].name = "checksum" =>
            /\ IsPrefix(ConnLog(c), ChecksumOrder)
            /\ st[c] = "done" => ConnLog(c) = ChecksumOrder

\* a program_checksum has returned while the other connection wrote
C18_Witness ==
    /\ op[1].name = "checksum" /\ st[1] = "done"
    /\ Len(ConnLog(1)) = 5 + ChecksumBlocks
    /\ op[2].name = "write" /\ Len(ConnLog(2)) > 0

\* the sleeps connection c has completed, each with the number of transfers
\* c had made when it completed
ConnNaps(c) ==
    LET mine == SelectSeq(naps, LAMBDA e : e.conn = c)
    IN  [k \in 1..Len(mine) |-> [ms |-> mine[k].ms, after |-> mine[k].after]]

IsWrite(a) == a.instr = "writeXbytes"

\* the writes an image script asks for, in the script's order
ScriptWrites(script) ==
    LET ws == SelectSeq(script, IsWrite)
    IN  [k \in 1..Len(ws) |-> RegWrite(ws[k].addr, ws[k].bytes)]

\* the sleeps an image script asks for: 10 s after an erase, 1 s for a delay,
\* each due when the writes of the actions up to its own are made
ScriptSleeps(script) ==
    LET due == SelectSeq([j \in 1..Len(script) |-> j],
                         LAMBDA j : (IsWrite(script[j]) /\ script[j].erase)
                                    \/ script[j].instr = "delay")
    IN  [k \in 1..Len(due) |->
            [ms |-> IF script[due[k]].instr = "delay" THEN 1000 ELSE 10000,
             after |-> Len(SelectSeq(SubSeq(script, 1, due[k]), IsWrite))]]

\* C19: the bus writes of write_eeprom_file are, at every moment, the first
\* writes of the script in the script's order; every sleep it has completed
\* is a sleep of the script, in order, completed after the write of its own
\* action and before a later one; it has not gone past a sleep that is due;
\* when it returns, every write and every sleep of the script has been made
C19_ScriptActionsInOrder ==
    \A c \in Conns :
        op[c].name = "script" =>
            LET script == Scripts[op[c].len]
            IN  /\ IsPrefix(ConnLog(c), ScriptWrites(script))
                /\ IsPrefix(ConnNaps(c), ScriptSleeps(script))
                /\ \A k \in 1..Len(ScriptSleeps(script)) :
                       ScriptSleeps(script)[k].after < Len(ConnLog(c))
                           => k <= Len(ConnNaps(c))
                /\ st[c] = "done" => /\ ConnLog(c) = ScriptWrites(script)
                                     /\ ConnNaps(c) = ScriptSleeps(script)

\* the erase-program-delay script has been applied whole, its two sleeps
\* among them, while the other connection applied a script of its own
C19_Witness ==
    /\ op[1].name = "script" /\ op[1].len = 1 /\ st[1] = "done"
    /\ ConnNaps(1) = <<[ms |-> 10000, after |-> 1], [ms |-> 1000, after |-> 2]>>
    /\ Len(ConnLog(1)) = 2
    /\ op[2].name = "script" /\ Len(ConnLog(2)) > 0

(***************************************************************************)
(* Properties of the bus transport (SpecTransport)                         *)
(***************************************************************************)
\* C9: the chunks of a write_data call carry the address base + (payload bytes
\* already written / 4) in the 16 bits of the request, their payloads follow
\* one another without gap or overlap, and when the call has returned device
\* memory holds the payload as one write of the whole payload at base would
\* have left it
C9_ChunkedWriteConsistent ==
    op[1].name = "write" =>
        /\ \A k \in DOMAIN log :
              /\ log[k].addr = (op[1].addr + log[k].off \div CELL_BYTES) % 65536
              /\ log[k].off = IF k = 1 THEN 0
                              ELSE log[k - 1].off + (log[k - 1].n - PREFIX)
        /\ st[1] = "done" =>
              /\ log[Len(log)].off + (log[Len(log)].n - PREFIX) = op[1].len
              /\ \A i \in 0..(op[1].len - 1) :
                    MemAt(log, (WireAddr(op[1].addr) * CELL_BYTES + i) % MemBytes) = i

\* a write of 8200 bytes has returned after three transfers
C9_Witness ==
    /\ op[1].name = "write" /\ op[1].len = 8200 /\ st[1] = "done"
    /\ Len(log) = 3

\* C10: every transfer on the bus, of a read as of a write, is at most the
\* ceiling of 4096 bytes, prefix included
C10_TransferWithinCeiling ==
    \A k \in DOMAIN log : log[k].n <= CEILING

\* C21: a write_data that has returned has made exactly one transfer when
\* len(data) + 3 is at most the ceiling of 4096 bytes (len(data) = 4093
\* included), and more than one only when len(data) + 3 exceeds it
C21_OneTransferUpToCeiling ==
    (op[1].name = "write" /\ st[1] = "done")
    => (Len(log) = 1 <=> PREFIX + op[1].len <= CEILING)

\* C11: write_data(addr, payload) followed by spi_read(addr, len(payload)) on a
\* bus whose device stores what is written returns a response whose payload is
\* the payload written, byte for byte
C11_WriteReadRoundTrip ==
    (op[1].name = "roundtrip" /\ st[1] = "done") =>
        LET k == Len(log)
        IN  /\ log[k].kind = "r"
            /\ read_response(SubSeq(log, 1, k - 1), log[k]).payload
                   = [i \in 1..op[1].len |-> i - 1]

\* a payload of 8200 bytes was written in three chunks at an address whose
\* second chunk wraps the 16-bit address, and read back in one transfer
C11_Witness ==
    /\ op[1].name = "roundtrip" /\ op[1].addr = 65000 /\ op[1].len = 8200
    /\ st[1] = "done" /\ Len(log) = 4 /\ log[4].kind = "r"

(***************************************************************************)
(* Properties of the client and its connection (SpecClient)                *)
(***************************************************************************)
\* the packets the client has sent on its present connection
SendsOnConnection ==
    LET last == CHOOSE i \in 0..Len(cevents) :
                    /\ i > 0 => cevents[i].ev = "connect"
                    /\ \A j \in (i + 1)..Len(cevents) : cevents[j].ev # "connect"
    IN  Cardinality({j \in (last + 1)..Len(cevents) : cevents[j].ev = "send"})

\* C12: when the request of read_memory(addr, length), addr and length below
\* 2^16, is the one packet the handler of the connection has been sent and all
\* of it has arrived, the handler has run exactly one frame, a READ of length
\* bytes at addr, and holds no byte of it back
C12_ReadRequestDecoded ==
    (call.name = "read_memory" /\ call.st \in {"waiting", "returned"}
        /\ SendsOnConnection = 1 /\ inflight = <<>> /\ peer = "open")
    => /\ processed = <<[op |-> COMMAND_READ, addr |-> call.addr, n |-> call.len,
                          bytes |-> <<>>]>>
       /\ data = None /\ ~read_more /\ crash = "none"
       /\ Len(sent) = 1 /\ sent[1].on = COMMAND_READ

\* a read of 65535 bytes at cell 65535 was decoded and answered
C12_Witness ==
    /\ call.name = "read_memory" /\ call.addr = 65535 /\ call.len = 65535
    /\ SendsOnConnection = 1 /\ inflight = <<>> /\ peer = "open"
    /\ Len(processed) = 1 /\ processed[1].addr = 65535 /\ processed[1].n = 65535

\* C16: a read_memory of n bytes, or a program_checksum (n = 16), whose request
\* is the one packet sent on the connection and was answered by the handler,
\* returns only when 14 + n response bytes have been received, so that what it
\* returns is the n bytes after the header
C16_ReadReturnsWholeResponse ==
    (/\ call.name \in {"read_memory", "program_checksum"} /\ call.st = "returned"
     /\ SendsOnConnection = 1 /\ crash = "none" /\ Len(sent) = 1)
    => /\ call.got = HEADER_SIZE + call.len
       /\ call.got - HEADER_SIZE = sent[1].n

\* what the client did on its socket in this step
NewEvents == SubSeq(cevents', Len(cevents) + 1, Len(cevents'))

\* whether the client holds a connection after the events of es, starting
\* from none
RECURSIVE LinkAfter(_)
LinkAfter(es) ==
    IF es = <<>> THEN "none"
    ELSE LET e == es[Len(es)]
         IN  IF e.ev = "connect" THEN "open"
             ELSE IF e.ev \in {"connect_failed", "disconnect"} THEN "none"
             ELSE LinkAfter(SubSeq(es, 1, Len(es) - 1))

\* C17: an operation (any but connect and disconnect) that starts while the
\* client holds no connection connects first when auto-connect is on, and
\* then sends on the new connection, or, the connect failing, sends nothing
\* and holds no connection; with auto-connect off it fails as not connected,
\* does nothing on a socket and holds no connection.  Whatever went before,
\* the client holds a socket exactly when its last connect succeeded and no
\* disconnect followed.
C17_EnsureConnected ==
    [][/\ sock' = LinkAfter(cevents')
       /\ (/\ call'.seq = call.seq + 1 /\ sock = "none"
           /\ call'.name \notin {"connect", "disconnect"})
          => IF autoconnect
             THEN \/ /\ sock' = "open" /\ NewEvents # <<>>
                     /\ NewEvents[1].ev = "connect"
                     /\ \A i \in 2..Len(NewEvents) : NewEvents[i].ev = "send"
                     /\ call'.st \in {"waiting", "returned", "IOError"}
                  \/ /\ sock' = "none" /\ call'.st = "CouldNotConnect"
                     /\ NewEvents = <<Event("connect_failed", call'.name)>>
                     /\ inflight' = inflight
             ELSE /\ sock' = "none" /\ call'.st = "NotConnected"
                  /\ NewEvents = <<>> /\ inflight' = inflight
      ]_vars

\* after a failed connect, write_biquad connected by itself and sent its five
\* packets
C17_Witness ==
    /\ autoconnect /\ call.name = "write_biquad" /\ call.st = "returned"
    /\ call.seq = 2 /\ sock = "open"
    /\ Len(cevents) = 7 /\ cevents[1].ev = "connect_failed"
    /\ cevents[2].ev = "connect" /\ cevents[7].ev = "send"

\* with auto-connect off, reset failed as not connected after a disconnect
C17_Refused ==
    /\ ~autoconnect /\ call.name = "reset" /\ call.st = "NotConnected"
    /\ call.seq = 2 /\ sock = "none" /\ cevents = <<>>

====
